---- MODULE Spec2Model ----
(***************************************************************************)
(* file2sql: a watchdog observer delivers filesystem notifications to      *)
(* PandasFileSystemEventHander, which keeps PandasStateWatcher.dataframes  *)
(* (path -> DataFrame) and the SQL tables of the engine in step.           *)
(*                                                                         *)
(* Paths and table names are sequences of one-character strings, so that   *)
(* str.split and str.endswith are computed, not assumed.  A DataFrame is   *)
(* the sequence of its rows.                                               *)
(***************************************************************************)
EXTENDS Integers, Sequences, FiniteSets, TLC

VARIABLES
  dataframes,   \* PandasStateWatcher.dataframes: dict src_path -> DataFrame
  store,        \* the tables behind PandasStateWatcher.engine: name -> rows
  observer,     \* the observer thread: "waiting" for an event, "dispatching"
                \* one, "returned" from the handler, "crashed", "stopped"
  current,      \* the event the observer thread is dispatching or has just
                \* dispatched (NoEvent while it waits)
  outcome,      \* what the handler did with it: the calls made to the
                \* PandasStateWatcher, the statements sent to the engine,
                \* the exception that left dispatch
  mainPc,       \* main(): "sleep" (the while loop), "join", "done"
  hist          \* history: path -> DataFrame of its last successful load with
                \*          no remove_dataframe of the path called since

vars == <<dataframes, store, observer, current, outcome, mainPc, hist>>

----------------------------------------------------------------------------
(* Bounds of the model *)

\* DataFrames of 1..MaxRows rows are loaded
MaxRows == 2

----------------------------------------------------------------------------
(* Strings *)

sep == "/"

\* files of the watched directory w
a_csv   == <<"w", "/", "a", ".", "c", "s", "v">>
a_b_csv == <<"w", "/", "a", ".", "b", ".", "c", "s", "v">>
b_csv   == <<"w", "/", "b", ".", "c", "s", "v">>
n_txt   == <<"w", "/", "n", ".", "t", "x", "t">>

Paths == {a_csv, a_b_csv, b_csv, n_txt}

\* paths whose table names differ pairwise
DistinctPaths == {a_csv, b_csv, n_txt}

\* the dest_path of an event that is not a move
NoPath == <<>>

dot_csv == <<".", "c", "s", "v">>

\* str.endswith
endswith(s, suffix) ==
  /\ Len(s) >= Len(suffix)
  /\ SubSeq(s, Len(s) - Len(suffix) + 1, Len(s)) = suffix

RECURSIVE splitFrom(_, _, _)
\* the pieces of s between the occurrences of character c, cur being the
\* piece read so far
splitFrom(s, c, cur) ==
  IF s = <<>> THEN <<cur>>
  ELSE IF Head(s) = c THEN <<cur>> \o splitFrom(Tail(s), c, <<>>)
  ELSE splitFrom(Tail(s), c, Append(cur, Head(s)))

\* str.split(c), c one character
split(s, c) == splitFrom(s, c, <<>>)

RECURSIVE join(_, _)
\* c.join(pieces)
join(pieces, c) ==
  IF Len(pieces) = 0 THEN <<>>
  ELSE IF Len(pieces) = 1 THEN pieces[1]
  ELSE pieces[1] \o <<c>> \o join(Tail(pieces), c)

\* the table name as os.path.splitext would give it: the file name without
\* its last extension
table_name_splitext(src_path) ==
  LET segments == split(src_path, sep)
      pieces   == split(segments[Len(segments)], ".")
  IN  IF Len(pieces) = 1 THEN pieces[1]
      ELSE join(SubSeq(pieces, 1, Len(pieces) - 1), ".")

\* src_path.split(os.path.sep)[-1].split('.')[0]
table_name(src_path) ==
  LET segments == split(src_path, sep)
  IN  split(segments[Len(segments)], ".")[1]

----------------------------------------------------------------------------
(* DataFrames and what pd.read_csv gives *)

\* the DataFrame of k rows; the rows of different DataFrames differ
DataFrame(k) == [i \in 1..k |-> 10 * k + i]

DataFrames == {DataFrame(k) : k \in 1..MaxRows}

\* no exception
none == "none"

\* pd.read_csv(src_path): a DataFrame, or one of the two exceptions that
\* add_dataframe catches
ReadResults ==
  [raises : {none}, df : DataFrames]
    \cup [raises : {"FileNotFoundError", "EmptyDataError"}, df : {<<>>}]

\* no pd.read_csv was made
NoRead == [raises |-> "unread", df |-> <<>>]

\* the number of the engine statement of one notification that fails for
\* I/O reasons (0: none); a notification sends at most three
Faults == 0..3

----------------------------------------------------------------------------
(* PandasStateWatcher.  A watcher value w is the object while one          *)
(* notification is handled: its dataframes and the engine's tables, the    *)
(* calls made to it and the statements sent to the engine so far (in       *)
(* order), and the exception raised, if any.  fault is the number of the   *)
(* engine statement that fails for I/O reasons (0: none).                  *)
(***************************************************************************)

\* a dict without key k
del(d, k) == [x \in DOMAIN d \ {k} |-> d[x]]

\* a dict with d[k] = v
put(d, k, v) == [x \in DOMAIN d \cup {k} |-> IF x = k THEN v ELSE d[x]]

\* the exceptions of the engine
NoSuchTable == "OperationalError: no such table"
IOFailure   == "OperationalError: disk I/O error"

\* the engine is sent statement stmt and raises exc
raise(w, stmt, exc) == [w EXCEPT !.ops = Append(@, stmt), !.exc = exc]

\* the statement sent next is the one that fails for I/O reasons
io_fails(w, fault) == Len(w.ops) + 1 = fault

\* df_to_sql with if_exists='append': the rows are added to the table's
df_to_sql_append(w, df, name, fault) ==
  LET stmt == [op |-> "replace", table |-> name]
  IN  IF io_fails(w, fault) THEN raise(w, stmt, IOFailure)
      ELSE [w EXCEPT !.ops = Append(@, stmt),
                     !.store = put(@, name,
                                   IF name \in DOMAIN w.store
                                     THEN w.store[name] \o df ELSE df)]

\* DataFrame.to_sql(table_name, con=engine, if_exists='replace')
df_to_sql(w, df, name, fault) ==
  LET stmt == [op |-> "replace", table |-> name]
  IN  IF io_fails(w, fault) THEN raise(w, stmt, IOFailure)
      ELSE [w EXCEPT !.ops = Append(@, stmt), !.store = put(@, name, df)]

\* engine.execute(f"SELECT * FROM {table_name}"), logged at debug level
select_all(w, name, fault) ==
  LET stmt == [op |-> "select", table |-> name]
  IN  IF name \notin DOMAIN w.store THEN raise(w, stmt, NoSuchTable)
      ELSE IF io_fails(w, fault) THEN raise(w, stmt, IOFailure)
      ELSE [w EXCEPT !.ops = Append(@, stmt)]

\* drop_table sending DELETE FROM: the table stays, without rows
drop_table_delete_rows(w, name, fault) ==
  LET stmt == [op |-> "drop", table |-> name]
  IN  IF name \notin DOMAIN w.store THEN raise(w, stmt, NoSuchTable)
      ELSE IF io_fails(w, fault) THEN raise(w, stmt, IOFailure)
      ELSE [w EXCEPT !.ops = Append(@, stmt), !.store = put(@, name, <<>>)]

\* engine.execute(f"DROP TABLE {table_name}")
drop_table(w, name, fault) ==
  LET stmt == [op |-> "drop", table |-> name]
  IN  IF name \notin DOMAIN w.store THEN raise(w, stmt, NoSuchTable)
      ELSE IF io_fails(w, fault) THEN raise(w, stmt, IOFailure)
      ELSE [w EXCEPT !.ops = Append(@, stmt), !.store = del(@, name)]

\* __to_sql whose drop branch is not taken (the operation is unrecognized)
to_sql_replace_only(w, src_path, operation, fault) ==
  LET name == table_name(src_path)
  IN  CASE operation = "replace" ->
             LET w1 == df_to_sql(w, w.dataframes[src_path], name, fault)
             IN  IF w1.exc # none THEN w1 ELSE select_all(w1, name, fault)
        [] OTHER -> w

\* PandasStateWatcher.__to_sql(src_path, operation)
to_sql(w, src_path, operation, fault) ==
  LET name == table_name(src_path)
  IN  CASE operation = "replace" ->
             LET w1 == df_to_sql(w, w.dataframes[src_path], name, fault)
             IN  IF w1.exc # none THEN w1 ELSE select_all(w1, name, fault)
        [] operation = "drop" -> drop_table(w, name, fault)
        [] OTHER -> w

\* add_dataframe taking a file that is not found for a deleted one: the key
\* is removed
add_dataframe_forgets(w, src_path, read, fault) ==
  LET w0 == [w EXCEPT !.calls =
               Append(@, [op |-> "add", path |-> src_path, read |-> read])]
  IN  IF read.raises = "FileNotFoundError"
        THEN [w0 EXCEPT !.dataframes = del(@, src_path)]
      ELSE IF read.raises = "EmptyDataError" THEN w0
      ELSE to_sql([w0 EXCEPT !.dataframes = put(@, src_path, read.df)],
                  src_path, "replace", fault)

\* add_dataframe catching FileNotFoundError only: EmptyDataError leaves it
add_dataframe_uncaught(w, src_path, read, fault) ==
  LET w0 == [w EXCEPT !.calls =
               Append(@, [op |-> "add", path |-> src_path, read |-> read])]
  IN  IF read.raises = "FileNotFoundError" THEN w0
      ELSE IF read.raises = "EmptyDataError"
        THEN [w0 EXCEPT !.exc = "EmptyDataError"]
      ELSE to_sql([w0 EXCEPT !.dataframes = put(@, src_path, read.df)],
                  src_path, "replace", fault)

\* add_dataframe putting the previous dataframes back when the replace
\* raises
add_dataframe_rollback(w, src_path, read, fault) ==
  LET w0 == [w EXCEPT !.calls =
               Append(@, [op |-> "add", path |-> src_path, read |-> read])]
      w1 == to_sql([w0 EXCEPT !.dataframes = put(@, src_path, read.df)],
                   src_path, "replace", fault)
  IN  IF read.raises = "FileNotFoundError" THEN w0
      ELSE IF read.raises = "EmptyDataError" THEN w0
      ELSE IF w1.exc # none THEN [w1 EXCEPT !.dataframes = w.dataframes]
      ELSE w1

\* PandasStateWatcher.add_dataframe(src_path), pd.read_csv giving read
add_dataframe(w, src_path, read, fault) ==
  LET w0 == [w EXCEPT !.calls =
               Append(@, [op |-> "add", path |-> src_path, read |-> read])]
  IN  IF read.raises = "FileNotFoundError" THEN w0
      ELSE IF read.raises = "EmptyDataError" THEN w0
      ELSE to_sql([w0 EXCEPT !.dataframes = put(@, src_path, read.df)],
                  src_path, "replace", fault)

\* remove_dataframe with dataframes.pop(src_path, None): the drop is sent
\* for an untracked path too
remove_dataframe_always_drops(w, src_path, fault) ==
  LET w0 == [w EXCEPT !.calls =
               Append(@, [op |-> "remove", path |-> src_path, read |-> NoRead])]
  IN  to_sql([w0 EXCEPT !.dataframes = del(@, src_path)],
             src_path, "drop", fault)

\* remove_dataframe keeping a table that another tracked path names too
remove_dataframe_shared(w, src_path, fault) ==
  LET w0 == [w EXCEPT !.calls =
               Append(@, [op |-> "remove", path |-> src_path, read |-> NoRead])]
      w1 == [w0 EXCEPT !.dataframes = del(@, src_path)]
  IN  IF src_path \notin DOMAIN w.dataframes THEN w0
      ELSE IF \E q \in DOMAIN w1.dataframes :
                table_name(q) = table_name(src_path) THEN w1
      ELSE to_sql(w1, src_path, "drop", fault)

\* remove_dataframe sending the drop before the del: a drop that raises
\* leaves the key in dataframes
remove_dataframe_drop_first(w, src_path, fault) ==
  LET w0 == [w EXCEPT !.calls =
               Append(@, [op |-> "remove", path |-> src_path, read |-> NoRead])]
      w1 == to_sql(w0, src_path, "drop", fault)
  IN  IF src_path \notin DOMAIN w.dataframes THEN w0
      ELSE IF w1.exc # none THEN w1
      ELSE [w1 EXCEPT !.dataframes = del(@, src_path)]

\* PandasStateWatcher.remove_dataframe(src_path)
remove_dataframe(w, src_path, fault) ==
  LET w0 == [w EXCEPT !.calls =
               Append(@, [op |-> "remove", path |-> src_path, read |-> NoRead])]
  IN  IF src_path \notin DOMAIN w.dataframes THEN w0
      ELSE to_sql([w0 EXCEPT !.dataframes = del(@, src_path)],
                  src_path, "drop", fault)

\* PandasStateWatcher.update_dataframes(src_path)
update_dataframes(w, src_path, read, fault) ==
  add_dataframe(w, src_path, read, fault)

----------------------------------------------------------------------------
(* PandasFileSystemEventHander *)

Kinds == {"created", "deleted", "modified", "moved"}

\* the watchdog events about the paths P; dest_path is NoPath unless the
\* event is a move
Events(P) ==
  [kind : Kinds \ {"moved"}, is_directory : BOOLEAN,
   src_path : P, dest_path : {NoPath}]
    \cup {e \in [kind : {"moved"}, is_directory : BOOLEAN,
                 src_path : P, dest_path : P] : e.src_path # e.dest_path}

on_created(w, event, read, fault) ==
  add_dataframe(w, event.src_path, read, fault)

on_deleted(w, event, read, fault) ==
  remove_dataframe(w, event.src_path, fault)

on_modified(w, event, read, fault) ==
  update_dataframes(w, event.src_path, read, fault)

\* on_moved removing the source before it adds the destination
on_moved_remove_first(w, event, read, fault) ==
  LET w1 == remove_dataframe(w, event.src_path, fault)
  IN  IF w1.exc # none THEN w1
      ELSE add_dataframe(w1, event.dest_path, read, fault)

\* on_moved without the remove of the source
on_moved_keeps_source(w, event, read, fault) ==
  add_dataframe(w, event.dest_path, read, fault)

\* the add of the destination, then the remove of the source (which an
\* exception in the add skips)
on_moved(w, event, read, fault) ==
  LET w1 == add_dataframe(w, event.dest_path, read, fault)
  IN  IF w1.exc # none THEN w1
      ELSE remove_dataframe(w1, event.src_path, fault)

\* dispatch's test with "and" for "or"
ignored_both(event) ==
  event.is_directory /\ ~endswith(event.src_path, dot_csv)

\* dispatch's test: directories and paths that are not CSV files are ignored
ignored(event) ==
  event.is_directory \/ ~endswith(event.src_path, dot_csv)

\* PandasFileSystemEventHander.dispatch(event); super().dispatch calls the
\* on_<kind> method of the event
dispatch(w, event, read, fault) ==
  IF ignored(event) THEN w
  ELSE CASE event.kind = "created"  -> on_created(w, event, read, fault)
         [] event.kind = "deleted"  -> on_deleted(w, event, read, fault)
         [] event.kind = "modified" -> on_modified(w, event, read, fault)
         [] event.kind = "moved"    -> on_moved(w, event, read, fault)

----------------------------------------------------------------------------
(* The process: main() and the observer thread *)

NoEvent ==
  [kind |-> none, is_directory |-> FALSE, src_path |-> NoPath,
   dest_path |-> NoPath]

NoOutcome == [calls |-> <<>>, ops |-> <<>>, exc |-> none]

RECURSIVE history(_, _)
\* hist after the calls cs (in order) were made: a successful load sets
\* the path's DataFrame, a remove forgets it
history(h, cs) ==
  IF cs = <<>> THEN h
  ELSE LET c == Head(cs)
       IN  history(CASE c.op = "add" /\ c.read.raises = none ->
                          put(h, c.path, c.read.df)
                     [] c.op = "remove" -> del(h, c.path)
                     [] OTHER -> h,
                   Tail(cs))

\* PandasStateWatcher.__init__ and main() up to observer.start()
Init ==
  /\ dataframes = <<>>
  /\ store = <<>>
  /\ observer = "waiting"
  /\ current = NoEvent
  /\ outcome = NoOutcome
  /\ mainPc = "sleep"
  /\ hist = <<>>

\* The observer thread takes the next event about the paths P from its
\* queue and calls the handler's dispatch with it.
Take(P) ==
  /\ observer = "waiting"
  /\ \E e \in Events(P) : current' = e
  /\ observer' = "dispatching"
  /\ UNCHANGED <<dataframes, store, outcome, mainPc, hist>>

\* The handler runs dispatch(event) to its end; an exception that leaves
\* dispatch ends the observer thread.
Handle(read, fault) ==
  /\ observer = "dispatching"
  /\ LET w == dispatch([dataframes |-> dataframes, store |-> store,
                        calls |-> <<>>, ops |-> <<>>, exc |-> none],
                       current, read, fault)
     IN  /\ dataframes' = w.dataframes
         /\ store' = w.store
         /\ observer' = IF w.exc # none THEN "crashed" ELSE "returned"
         /\ outcome' = [calls |-> w.calls, ops |-> w.ops, exc |-> w.exc]
         /\ hist' = history(hist, w.calls)
  /\ UNCHANGED <<current, mainPc>>

Ignore ==
  /\ ignored(current)
  /\ Handle(NoRead, 0)

Created ==
  /\ current.kind = "created" /\ ~ignored(current)
  /\ \E read \in ReadResults, fault \in Faults : Handle(read, fault)

Deleted ==
  /\ current.kind = "deleted" /\ ~ignored(current)
  /\ \E fault \in Faults : Handle(NoRead, fault)

Modified ==
  /\ current.kind = "modified" /\ ~ignored(current)
  /\ \E read \in ReadResults, fault \in Faults : Handle(read, fault)

Moved ==
  /\ current.kind = "moved" /\ ~ignored(current)
  /\ \E read \in ReadResults, fault \in Faults : Handle(read, fault)

\* dispatch has returned: the observer thread goes back to its queue, or
\* ends if observer.stop() was called meanwhile
Return ==
  /\ observer = "returned"
  /\ observer' = IF mainPc = "sleep" THEN "waiting" ELSE "stopped"
  /\ current' = NoEvent
  /\ outcome' = NoOutcome
  /\ UNCHANGED <<dataframes, store, mainPc, hist>>

\* an interrupt that ends the observer thread at once, whatever it is doing
Interrupt_kills ==
  /\ mainPc = "sleep"
  /\ mainPc' = "join"
  /\ observer' = "stopped"
  /\ UNCHANGED <<dataframes, store, current, outcome, hist>>

\* an interrupt after which main() disposes of the watcher's state itself
Interrupt_clears ==
  /\ mainPc = "sleep"
  /\ mainPc' = "join"
  /\ observer' = IF observer = "waiting" THEN "stopped" ELSE observer
  /\ dataframes' = <<>>
  /\ store' = <<>>
  /\ UNCHANGED <<current, outcome, hist>>

\* KeyboardInterrupt in the sleep loop: observer.stop(); a waiting observer
\* thread ends, a dispatching one ends after the handler has returned
Interrupt ==
  /\ mainPc = "sleep"
  /\ mainPc' = "join"
  /\ observer' = IF observer = "waiting" THEN "stopped" ELSE observer
  /\ UNCHANGED <<dataframes, store, current, outcome, hist>>

\* observer.join() returns once the observer thread has ended
Join ==
  /\ mainPc = "join"
  /\ observer \in {"stopped", "crashed"}
  /\ mainPc' = "done"
  /\ UNCHANGED <<dataframes, store, observer, current, outcome, hist>>

Steps ==
  \/ Ignore
  \/ Created
  \/ Deleted
  \/ Modified
  \/ Moved
  \/ Return
  \/ Interrupt
  \/ Join

Next == Take(Paths) \/ Steps

Spec == Init /\ [][Next]_vars

\* the runs whose notifications are all about paths with pairwise different
\* table names
NextDistinct == Take(DistinctPaths) \/ Steps

SpecDistinct == Init /\ [][NextDistinct]_vars

----------------------------------------------------------------------------
(* The table name of arbitrary paths: the PandasStateWatcher is called with *)
(* one path, add_dataframe and then remove_dataframe, and the statements    *)
(* sent to the engine show the names derived.                               *)

\* the paths are the strings of at most MaxPathLen characters of Alphabet
MaxPathLen == 4

Alphabet == {"a", "b", ".", "/"}

NameInputs == UNION {[1..n -> Alphabet] : n \in 0..MaxPathLen}

InitNames ==
  /\ dataframes = <<>>
  /\ store = <<>>
  /\ observer = "dispatching"
  /\ \E p \in NameInputs :
       current = [kind |-> "created", is_directory |-> FALSE,
                  src_path |-> p, dest_path |-> NoPath]
  /\ outcome = NoOutcome
  /\ mainPc = "sleep"
  /\ hist = <<>>

\* add_dataframe(src_path), the load giving a DataFrame
NameAdd ==
  /\ outcome.calls = <<>>
  /\ \E df \in DataFrames :
       LET w == add_dataframe([dataframes |-> dataframes, store |-> store,
                               calls |-> <<>>, ops |-> <<>>, exc |-> none],
                              current.src_path,
                              [raises |-> none, df |-> df], 0)
       IN  /\ dataframes' = w.dataframes
           /\ store' = w.store
           /\ outcome' = [calls |-> w.calls, ops |-> w.ops, exc |-> w.exc]
           /\ hist' = history(hist, w.calls)
  /\ UNCHANGED <<observer, current, mainPc>>

\* remove_dataframe(src_path) after it
NameRemove ==
  /\ Len(outcome.calls) = 1
  /\ LET w == remove_dataframe([dataframes |-> dataframes, store |-> store,
                                calls |-> outcome.calls, ops |-> outcome.ops,
                                exc |-> none],
                               current.src_path, 0)
     IN  /\ dataframes' = w.dataframes
         /\ store' = w.store
         /\ outcome' = [calls |-> w.calls, ops |-> w.ops, exc |-> w.exc]
         /\ hist' = history(hist, <<w.calls[2]>>)
  /\ UNCHANGED <<observer, current, mainPc>>

NextNames == NameAdd \/ NameRemove

SpecNames == InitNames /\ [][NextNames]_vars

----------------------------------------------------------------------------
(* Properties *)

\* the handler has run for current, and outcome tells what it did
Handled == observer \in {"returned", "crashed"}

\* the step in which the handler runs for current
Handling == observer = "dispatching" /\ observer' \in {"returned", "crashed"}

\* a file event about a path ending in .csv
Accepted(e) == ~e.is_directory /\ endswith(e.src_path, dot_csv)

\* the i-th call of the handler to the PandasStateWatcher
Call(i) == outcome.calls[i]

\* C1: Store mirrors tracking.  In the runs whose paths have pairwise
\* different table names, as long as no statement sent to the engine has
\* failed: the table named table_name(p) exists iff p is a key of dataframes,
\* its rows are then dataframes[p], and there is no other table.
C1_StoreMirrorsTracking ==
  observer # "crashed" =>
    /\ \A p \in DistinctPaths :
         /\ table_name(p) \in DOMAIN store <=> p \in DOMAIN dataframes
         /\ p \in DOMAIN dataframes => store[table_name(p)] = dataframes[p]
    /\ DOMAIN store = {table_name(p) : p \in DOMAIN dataframes}

\* a delete has dropped one table while another path stays mirrored
C1_Witness ==
  /\ observer = "returned"
  /\ current.kind = "deleted"
  /\ outcome.ops = <<[op |-> "drop", table |-> table_name(current.src_path)]>>
  /\ b_csv \in DOMAIN dataframes
  /\ store[table_name(b_csv)] = dataframes[b_csv]

\* C2: Tracking invariant.  In every reachable state the keys of dataframes
\* are the paths whose last successful load was followed by no remove, and
\* dataframes[p] is the DataFrame of that load.
C2_TrackingIsLastLoad == dataframes = hist

\* a move has loaded its destination and removed its source, another path
\* staying tracked
C2_Witness ==
  /\ observer = "returned"
  /\ current.kind = "moved"
  /\ Len(outcome.ops) = 3
  /\ current.dest_path \in DOMAIN dataframes
  /\ Cardinality(DOMAIN dataframes) = 2

\* C3: A notification about a directory, or whose src_path does not end in
\* .csv, makes no call to the PandasStateWatcher and sends nothing to the
\* engine: dataframes and the tables are as before.
C3_IgnoredReachNothing ==
  [][(Handling /\ ~Accepted(current)) =>
       /\ outcome'.calls = <<>>
       /\ outcome'.ops = <<>>
       /\ observer' = "returned"
       /\ dataframes' = dataframes
       /\ store' = store]_vars

\* a move of a file that is no CSV file onto a tracked CSV path was ignored
C3_Witness ==
  /\ observer = "returned"
  /\ current.kind = "moved"
  /\ ~current.is_directory
  /\ current.src_path = n_txt
  /\ current.dest_path \in DOMAIN dataframes

\* pd.read_csv raised one of the two exceptions add_dataframe catches
FailedLoad(c) ==
  c.op = "add" /\ c.read.raises \in {"FileNotFoundError", "EmptyDataError"}

\* pd.read_csv gave a DataFrame
GoodLoad(c) == c.op = "add" /\ c.read.raises = none

\* C4: add_dataframe(p) whose load raises FileNotFoundError or
\* EmptyDataError sends nothing to the engine and leaves dataframes and the
\* tables as they were: an untracked p stays untracked, a tracked p keeps its
\* DataFrame and its table.  (In a move the remove of the source follows; the
\* add is the first call, and only a drop can be sent after it.)
C4_FailedLoadNoOp ==
  [][(Handling /\ outcome'.calls # <<>> /\ FailedLoad(outcome'.calls[1])) =>
       LET p == outcome'.calls[1].path
       IN  /\ p \in DOMAIN dataframes' <=> p \in DOMAIN dataframes
           /\ p \in DOMAIN dataframes => dataframes'[p] = dataframes[p]
           /\ \A i \in DOMAIN outcome'.ops : outcome'.ops[i].op = "drop"
           /\ Len(outcome'.calls) = 1 =>
                /\ outcome'.ops = <<>>
                /\ observer' = "returned"
                /\ dataframes' = dataframes
                /\ store' = store]_vars

\* a modification of a tracked file found the file empty: DataFrame and
\* table are kept
C4_Witness ==
  /\ observer = "returned"
  /\ current.kind = "modified"
  /\ outcome.calls # <<>>
  /\ Call(1).read.raises = "EmptyDataError"
  /\ current.src_path \in DOMAIN dataframes
  /\ table_name(current.src_path) \in DOMAIN store

\* C5: remove_dataframe(p) for a path p that is no key of dataframes changes
\* nothing and sends nothing to the engine, also when a table named
\* table_name(p) exists.  (In a move the add of the destination comes first:
\* then the source stays untracked and no drop is sent.)
C5_RemoveUntrackedNoOp ==
  [][(Handling /\ Accepted(current)
        /\ current.src_path \notin DOMAIN dataframes) =>
       /\ current.kind = "deleted" =>
            /\ outcome'.ops = <<>>
            /\ observer' = "returned"
            /\ dataframes' = dataframes
            /\ store' = store
       /\ current.kind = "moved" =>
            /\ current.src_path \notin DOMAIN dataframes'
            /\ \A i \in DOMAIN outcome'.ops : outcome'.ops[i].op # "drop"]_vars

\* a.b.csv, not tracked, was deleted while a.csv is tracked and has its
\* table, which bears the name a.b.csv gives too
C5_Witness ==
  /\ observer = "returned"
  /\ current.kind = "deleted"
  /\ ~current.is_directory
  /\ current.src_path = a_b_csv
  /\ outcome.calls = <<[op |-> "remove", path |-> a_b_csv, read |-> NoRead]>>
  /\ a_csv \in DOMAIN dataframes
  /\ table_name(a_b_csv) \in DOMAIN store

\* C6: Full cycle.  A created notification for p whose load succeeds, no
\* statement failing, leaves p tracked and the table table_name(p) with
\* exactly the loaded rows; a deleted notification for a tracked p removes
\* the key and then sends exactly one statement, the drop of table_name(p);
\* unless that drop fails for I/O reasons the table then does not exist, and
\* when the table existed (as it does right after the creation) the
\* handler returns normally.
C6_FullCycle ==
  [][(Handling /\ Accepted(current)) =>
       LET p == current.src_path
           t == table_name(current.src_path)
       IN  /\ (current.kind = "created" /\ GoodLoad(outcome'.calls[1])
                 /\ observer' = "returned") =>
                /\ p \in DOMAIN dataframes'
                /\ t \in DOMAIN store'
                /\ store'[t] = outcome'.calls[1].read.df
           /\ (current.kind = "deleted" /\ p \in DOMAIN dataframes) =>
                /\ p \notin DOMAIN dataframes'
                /\ outcome'.ops = <<[op |-> "drop", table |-> t]>>
                /\ outcome'.exc # IOFailure => t \notin DOMAIN store'
                /\ (t \in DOMAIN store /\ outcome'.exc # IOFailure) =>
                     observer' = "returned"]_vars

\* the delete of a tracked file has dropped its table
C6_Witness ==
  /\ observer = "returned"
  /\ current.kind = "deleted"
  /\ outcome.ops = <<[op |-> "drop", table |-> table_name(current.src_path)]>>
  /\ current.src_path \notin DOMAIN dataframes
  /\ table_name(current.src_path) \notin DOMAIN store

\* C7: Full replace.  After a created or modified notification whose load
\* succeeds and whose statements do not fail, the table table_name(p) holds
\* exactly the rows of the DataFrame just loaded, whatever it held before.
C7_FullReplace ==
  [][(Handling /\ Accepted(current)
        /\ current.kind \in {"created", "modified"}
        /\ GoodLoad(outcome'.calls[1]) /\ observer' = "returned") =>
       /\ store'[table_name(current.src_path)] = outcome'.calls[1].read.df
       /\ dataframes'[current.src_path] = outcome'.calls[1].read.df
       /\ outcome'.ops =
            <<[op |-> "replace", table |-> table_name(current.src_path)],
              [op |-> "select", table |-> table_name(current.src_path)]>>]_vars

\* a modification has replaced a table by the one-row DataFrame while a
\* second table holds the two-row one
C7_Witness ==
  /\ observer = "returned"
  /\ current.kind = "modified"
  /\ outcome.calls # <<>>
  /\ GoodLoad(Call(1))
  /\ store[table_name(current.src_path)] = DataFrame(1)
  /\ \E t \in DOMAIN store : store[t] = DataFrame(2)

C9_MoveCycle ==
  [][(Handling /\ Accepted(current) /\ current.kind = "moved"
        /\ current.src_path \in DOMAIN dataframes
        /\ table_name(current.src_path) # table_name(current.dest_path)
        /\ GoodLoad(outcome'.calls[1])
        /\ outcome'.exc # IOFailure) =>
       /\ current.dest_path \in DOMAIN dataframes'
       /\ dataframes'[current.dest_path] = outcome'.calls[1].read.df
       /\ store'[table_name(current.dest_path)] = outcome'.calls[1].read.df
       /\ current.src_path \notin DOMAIN dataframes'
       /\ table_name(current.src_path) \notin DOMAIN store']_vars

\* a.csv was moved to b.csv
C9_Witness ==
  /\ observer = "returned"
  /\ current.kind = "moved"
  /\ current.src_path = a_csv /\ current.dest_path = b_csv
  /\ Len(outcome.ops) = 3
  /\ b_csv \in DOMAIN dataframes
  /\ a_csv \notin DOMAIN dataframes

\* C10: Identity collision.  While a.csv and a.b.csv are both tracked, a
\* successful add of one of them leaves table a with that one's DataFrame
\* (the other keeps its own DataFrame in dataframes), and the delete of one
\* of them drops table a while the other stays a key of dataframes; this
\* unless a statement fails for I/O reasons.
C10_Collision ==
  [][(Handling /\ Accepted(current)
        /\ {a_csv, a_b_csv} \subseteq DOMAIN dataframes
        /\ current.src_path \in {a_csv, a_b_csv}
        /\ outcome'.exc # IOFailure) =>
       LET other == CHOOSE q \in {a_csv, a_b_csv} : q # current.src_path
       IN  /\ (current.kind \in {"created", "modified"}
                 /\ GoodLoad(outcome'.calls[1])) =>
                /\ store'[<<"a">>] = outcome'.calls[1].read.df
                /\ dataframes'[other] = dataframes[other]
           /\ current.kind = "deleted" =>
                /\ <<"a">> \notin DOMAIN store'
                /\ current.src_path \notin DOMAIN dataframes'
                /\ other \in DOMAIN dataframes'
                /\ dataframes'[other] = dataframes[other]]_vars

\* a.csv was deleted: a.b.csv is tracked and has no table
C10_Witness ==
  /\ observer = "returned"
  /\ current.kind = "deleted"
  /\ current.src_path = a_csv
  /\ Len(outcome.ops) = 1
  /\ a_b_csv \in DOMAIN dataframes
  /\ table_name(a_b_csv) \notin DOMAIN store

\* the indices of character c in s
Positions(s, c) == {i \in 1..Len(s) : s[i] = c}

\* the greatest element of the set S of naturals, 0 if it is empty
Greatest(S) == IF S = {} THEN 0 ELSE CHOOSE i \in S : \A j \in S : j <= i

\* the least element of the set S of naturals, otherwise d
Least(S, d) == IF S = {} THEN d ELSE CHOOSE i \in S : \A j \in S : i <= j

\* the final segment of p, after its last separator
FinalSegment(p) == SubSeq(p, Greatest(Positions(p, sep)) + 1, Len(p))

\* the part of the final segment of p before the segment's first "."
Stem(p) ==
  LET seg == FinalSegment(p)
  IN  SubSeq(seg, 1, Least(Positions(seg, "."), Len(seg) + 1) - 1)

\* C11: The table name.  Every statement that add_dataframe(p) and
\* remove_dataframe(p) send to the engine, the replace and the drop alike,
\* names the table Stem(p): the final segment of p up to its first "."; so
\* w/a.csv and w/a.b.csv both give a.
C11_TableName ==
  /\ \A i \in DOMAIN outcome.ops : outcome.ops[i].table = Stem(current.src_path)
  /\ table_name(a_csv) = <<"a">>
  /\ table_name(a_b_csv) = <<"a">>

\* /a.b was added and removed: table a was replaced, read and dropped
C11_Witness ==
  /\ current.src_path = <<"/", "a", ".", "b">>
  /\ Len(outcome.ops) = 3
  /\ outcome.ops[1] = [op |-> "replace", table |-> <<"a">>]
  /\ outcome.ops[3] = [op |-> "drop", table |-> <<"a">>]
  /\ store = <<>>

\* C12: No error is fatal.  A failure of a statement sent to the engine
\* while a notification is handled does not end the observer thread.
C12_StoreFailureNotFatal ==
  outcome.exc \in {NoSuchTable, IOFailure} => observer # "crashed"

\* the steps left to main() after the interrupt: at most the handler's
\* end, the observer thread's return and end, and the join
Rank ==
  IF mainPc = "done" THEN 0
  ELSE CASE observer \in {"stopped", "crashed"} -> 1
         [] observer = "returned" -> 2
         [] observer = "dispatching" -> 3
         [] OTHER -> 4

\* C13: Cancellation.  The observer thread is stopped only after the
\* interrupt; the interrupt does not end a thread that is dispatching, whose
\* handler still runs to its end; main() is done only once the observer
\* thread has ended; and after the interrupt main() does get done: until
\* then the guard of a handler step, of the thread's return or of the join
\* holds, and every step brings the end nearer.
C13_Cancellation ==
  /\ [](observer = "stopped" => mainPc # "sleep")
  /\ [](mainPc = "done" => observer \in {"stopped", "crashed"})
  /\ [][(observer = "dispatching" /\ mainPc' # "sleep") =>
          observer' \in {"dispatching", "returned", "crashed"}]_vars
  /\ [](mainPc = "join" =>
          /\ Rank \in 1..3
          /\ \/ observer = "dispatching" /\ current.kind \in Kinds
             \/ observer = "returned"
             \/ observer \in {"stopped", "crashed"})
  /\ [][mainPc = "join" => Rank' < Rank]_vars

\* a move that was being dispatched when the interrupt came has sent its
\* three statements, and main() waits in join
C13_Witness ==
  /\ mainPc = "join"
  /\ observer = "returned"
  /\ current.kind = "moved"
  /\ Len(outcome.ops) = 3

\* C14: Single writer.  dataframes and the tables change only in the step in
\* which the observer thread runs the handler for the one event it has
\* taken; a new event is taken only when the thread waits, the handler of
\* the last one having returned; no step of the main thread changes
\* dataframes or the tables.
C14_SingleWriter ==
  /\ [][(dataframes' # dataframes \/ store' # store) =>
          (Handling /\ current' = current /\ mainPc' = mainPc)]_vars
  /\ [][(current' # current /\ current' # NoEvent) =>
          (observer = "waiting" /\ current = NoEvent
             /\ outcome = NoOutcome /\ mainPc' = mainPc)]_vars
  /\ [][mainPc' # mainPc =>
          (dataframes' = dataframes /\ store' = store
             /\ current' = current /\ outcome' = outcome)]_vars

\* the main thread is done while the tables and dataframes, written by the
\* handlers alone, hold two files
C14_Witness ==
  /\ mainPc = "done"
  /\ Cardinality(DOMAIN dataframes) = 2
  /\ Cardinality(DOMAIN store) = 2

\* the watcher with dataframes d and tables t, before any call
Watcher(d, t) ==
  [dataframes |-> d, store |-> t, calls |-> <<>>, ops |-> <<>>, exc |-> none]

\* the last call the handler made
LastCall(o) == o.calls[Len(o.calls)]

\* C15: when remove_dataframe is called with a tracked path and its DROP
\* TABLE raises, the path is nevertheless no longer a key of dataframes, the
\* drop was the last statement sent, and a
\* later remove_dataframe of that path returns without a statement, a
\* change or an exception.
C15_RemoveBeforeDrop ==
  [][(/\ Handling
      /\ outcome'.calls # <<>>
      /\ LastCall(outcome').op = "remove"
      /\ LastCall(outcome').path \in DOMAIN dataframes
      /\ outcome'.exc # none) =>
        LET p == LastCall(outcome').path
        IN  /\ p \notin DOMAIN dataframes'
            /\ outcome'.ops[Len(outcome'.ops)].op = "drop"
            /\ \A fault \in Faults :
                  LET w == remove_dataframe(Watcher(dataframes', store'),
                                            p, fault)
                  IN  /\ w.dataframes = dataframes'
                      /\ w.store = store'
                      /\ w.ops = <<>>
                      /\ w.exc = none]_vars

\* the DROP TABLE of a deleted file has raised no such table, and the file
\* is not a key of dataframes
C15_Witness ==
  /\ observer = "crashed"
  /\ current.kind = "deleted"
  /\ outcome.ops = <<[op |-> "drop", table |-> <<"a">>]>>
  /\ outcome.exc = NoSuchTable
  /\ current.src_path \notin DOMAIN dataframes
  /\ dataframes # <<>>

\* C16: Same-identity move.  When a moved notification whose source is
\* tracked and whose destination has the source's table name is handled with
\* a good load and no I/O failure, afterwards the destination is a key of
\* dataframes, the source is not, and the table of that name exists and
\* holds the destination's DataFrame.
C16_SameIdentityMove ==
  [][(/\ Handling
      /\ current.kind = "moved"
      /\ Accepted(current)
      /\ current.src_path \in DOMAIN dataframes
      /\ Stem(current.dest_path) = Stem(current.src_path)
      /\ outcome'.calls # <<>>
      /\ GoodLoad(outcome'.calls[1])
      /\ outcome'.exc # IOFailure) =>
        /\ current.dest_path \in DOMAIN dataframes'
        /\ current.src_path \notin DOMAIN dataframes'
        /\ Stem(current.dest_path) \in DOMAIN store'
        /\ store'[Stem(current.dest_path)] = outcome'.calls[1].read.df]_vars

\* C17: Every key of dataframes is a path that ends in .csv, and so every
\* table has the name of such a path.
C17_OnlyCsvTracked ==
  /\ \A p \in DOMAIN dataframes : endswith(p, dot_csv)
  /\ \A t \in DOMAIN store :
        \E p \in Paths : endswith(p, dot_csv) /\ Stem(p) = t

\* C18: Without a failure for I/O reasons, no handler's DROP TABLE names a
\* table that does not exist: no drop raises no such table.
C18_DropsExistingTable ==
  \A i \in DOMAIN outcome.ops :
    (i = Len(outcome.ops) /\ outcome.ops[i].op = "drop") =>
      outcome.exc # NoSuchTable

\* C19: When add_dataframe has loaded a DataFrame and its replace raises,
\* dataframes holds the new DataFrame under the path while the tables are
\* as they were before the call (the table of the path is the previous one,
\* or there is none); a later add_dataframe of the path that succeeds makes
\* the table equal to dataframes' entry again.
C19_NoRollback ==
  [][(/\ Handling
      /\ outcome'.calls # <<>>
      /\ GoodLoad(LastCall(outcome'))
      /\ outcome'.ops # <<>>
      /\ outcome'.ops[Len(outcome'.ops)].op = "replace"
      /\ outcome'.exc # none) =>
        LET p == LastCall(outcome').path
        IN  /\ p \in DOMAIN dataframes'
            /\ dataframes'[p] = LastCall(outcome').read.df
            /\ store' = store
            /\ \A df \in DataFrames :
                  LET w == add_dataframe(Watcher(dataframes', store'), p,
                                         [raises |-> none, df |-> df], 0)
                  IN  /\ w.exc = none
                      /\ w.dataframes[p] = df
                      /\ w.store[Stem(p)] = df]_vars

\* the replace of a modified file has raised: dataframes holds the new
\* DataFrame of the file, its table the previous one
C19_Witness ==
  /\ observer = "crashed"
  /\ current.kind = "modified"
  /\ outcome.exc = IOFailure
  /\ outcome.ops = <<[op |-> "replace", table |-> <<"a">>]>>
  /\ current.src_path \in DOMAIN dataframes
  /\ <<"a">> \in DOMAIN store
  /\ store[<<"a">>] # dataframes[current.src_path]

====
